---------------------------- MODULE Spec2Model ----------------------------
(***************************************************************************)
(* State-machine model of audio_processor.cpp: the global scratch arena    *)
(* g_memory_buffer and the exported wasm_* entry points that write their   *)
(* result into it.                                                         *)
(*                                                                         *)
(* Conventions                                                             *)
(*  - uint32_t values are pairs <<hi, lo>> of 16-bit limbs, so that the    *)
(*    arithmetic of the code wraps modulo 2^32 exactly as it does in C.    *)
(*  - float samples are exact rationals <<num, den>> in lowest terms with  *)
(*    den > 0.  The inputs are chosen so that every float operation of     *)
(*    the code is exact on them (dyadic values, power-of-two rate ratios), *)
(*    except the cross-fade weights i/fade_length for a fade_length that   *)
(*    is not a power of two, where the rational is the value the float     *)
(*    approximates.                                                        *)
(*  - a pointer is 0 (NULL) or the name of a live heap block.              *)
(*  - an access outside an object (undefined behaviour) has two outcomes:  *)
(*    the instance traps, or the call runs to its end with unspecified     *)
(*    bytes in the arena.  A store through a NULL arena pointer either     *)
(*    traps or lands at address 0 (linear memory).                         *)
(***************************************************************************)
EXTENDS Integers, Sequences, FiniteSets, TLC

VARIABLES
    g_memory_buffer, \* [buffer, size, capacity]: the global MemoryBuffer
    mem,             \* what the last call wrote into the arena from offset 0
    output,          \* the caller's output AudioBuffer descriptor after the call
    call,            \* the call the host made last, with its arguments
    ret,             \* its return value (uint32_t)
    denied,          \* its realloc request was refused
    pc               \* "idle" | "returned" | "trapped": where the host is

vars == <<g_memory_buffer, mem, output, call, ret, denied, pc>>

----------------------------------------------------------------------------
(* Bounds of the model *)

\* longest input buffer, in frames per channel
MaxLen == 2
\* most descriptors handed to one wasm_merge_audio_buffers call
MaxBufs == 2

(* Program constants *)

\* the canonical WAV header: total_size = 44 + data_size
HeaderSize == 44
\* sizeof(float)
SizeofFloat == 4

----------------------------------------------------------------------------
(* uint32_t as two 16-bit limbs *)

Base == 256 * 256

\* the uint32_t with value n, 0 <= n < 2^31
U(n) == <<n \div Base, n % Base>>

\* the value of x as a natural number; x < 2^31 (x[1] < 2^15)
N(x) == x[1] * Base + x[2]


Add32(a, b) ==
    LET lo == a[2] + b[2]
        hi == a[1] + b[1] + (lo \div Base)
    IN  <<hi % Base, lo % Base>>

Sub32(a, b) ==
    LET lo == a[2] - b[2]
        hi == a[1] - b[1] - (IF lo < 0 THEN 1 ELSE 0)
    IN  <<(hi + 2 * Base) % Base, (lo + Base) % Base>>

\* a * k modulo 2^32 for a natural k < 2^15
Mul32(a, k) ==
    LET lo == a[2] * k
        hi == a[1] * k + (lo \div Base)
    IN  <<hi % Base, lo % Base>>

Lt32(a, b) == a[1] < b[1] \/ (a[1] = b[1] /\ a[2] < b[2])
Gt32(a, b) == Lt32(b, a)
Le32(a, b) == ~Lt32(b, a)
Ge32(a, b) == ~Lt32(a, b)

Zero32 == <<0, 0>>
\* 2^32 - 1
Max32 == <<Base - 1, Base - 1>>

----------------------------------------------------------------------------
(* float samples as exact rationals *)

RECURSIVE Gcd(_, _)
Gcd(a, b) == IF b = 0 THEN a ELSE Gcd(b, a % b)

Abs(n) == IF n < 0 THEN -n ELSE n

Rat(n, d) ==
    LET g == Gcd(Abs(n), Abs(d))
        s == IF d < 0 THEN -1 ELSE 1
    IN  <<(s * n) \div g, (s * d) \div g>>

RInt(n) == <<n, 1>>
RAdd(a, b) == Rat(a[1] * b[2] + b[1] * a[2], a[2] * b[2])
RSub(a, b) == Rat(a[1] * b[2] - b[1] * a[2], a[2] * b[2])
RMul(a, b) == Rat(a[1] * b[1], a[2] * b[2])
RLt(a, b) == a[1] * b[2] < b[1] * a[2]
RMin(a, b) == IF RLt(b, a) THEN b ELSE a
RMax(a, b) == IF RLt(a, b) THEN b ELSE a
\* (int)(x): truncation toward zero
RTrunc(a) == IF a[1] < 0 THEN -((-a[1]) \div a[2]) ELSE a[1] \div a[2]


----------------------------------------------------------------------------
(* Shapes of the observation variables *)

\* a WAVHeader and the payload bytes that follow it
NoWav == [riff |-> "", file_size |-> Zero32, wave |-> "", fmt |-> "",
          fmt_size |-> Zero32, audio_format |-> 0, num_channels |-> 0,
          sample_rate |-> Zero32, byte_rate |-> Zero32, block_align |-> 0,
          bits_per_sample |-> 0, data |-> "", data_size |-> Zero32,
          payload |-> <<>>]

\* call.op names the entry point; the other fields are its arguments
\* (those the entry point does not take keep these defaults)
NoCall == [op |-> "none", bufs |-> <<>>, a |-> Zero32, b |-> Zero32,
           bits |-> 0, wav |-> NoWav]

\* the caller's descriptor before the callee stores into it
NoOutput == [written |-> FALSE, data |-> 0, length |-> Zero32,
             num_channels |-> 0, sample_rate |-> Zero32]

\* the arena bytes a call wrote: nothing, float samples, a WAV file
\* (header fields and payload bytes; -1 is a byte the call left unwritten),
\* or bytes that an out-of-bounds copy produced
NoMem == [kind |-> "none", header |-> NoWav, data |-> <<>>]
FloatMem(d) == [kind |-> "float", header |-> NoWav, data |-> d]
WavMem(h) == [kind |-> "wav", header |-> h, data |-> <<>>]
GarbageMem == [kind |-> "garbage", header |-> NoWav, data |-> <<>>]

\* heap blocks malloc/realloc can hand out
Addrs == {1, 2}
\* what a malloc/realloc call returns: NULL (0) or a block
AllocOutcomes == {0} \cup Addrs

----------------------------------------------------------------------------
(* Arena lifecycle *)

\* MemoryBuffer g_memory_buffer = {NULL, 0, 0}
Init ==
    /\ g_memory_buffer = [buffer |-> 0, size |-> Zero32, capacity |-> Zero32]
    /\ mem = NoMem
    /\ output = NoOutput
    /\ call = NoCall
    /\ ret = Zero32
    /\ denied = FALSE
    /\ pc = "idle"

\* wasm_init_memory(size); p is what malloc(size) returns
wasm_init_memory(size, p) ==
    /\ pc = "idle"
    /\ call' = [NoCall EXCEPT !.op = "init_memory", !.a = size]
    /\ IF p = 0
         THEN /\ g_memory_buffer' = [g_memory_buffer EXCEPT !.buffer = 0]
              /\ ret' = Zero32
         ELSE /\ g_memory_buffer' = [buffer |-> p, size |-> Zero32, capacity |-> size]
              /\ ret' = size
    /\ mem' = NoMem
    /\ output' = NoOutput
    /\ denied' = FALSE
    /\ pc' = "returned"

\* wasm_cleanup()
wasm_cleanup ==
    /\ pc = "idle"
    /\ call' = [NoCall EXCEPT !.op = "cleanup"]
    /\ g_memory_buffer' = [buffer |-> 0, size |-> Zero32, capacity |-> Zero32]
    /\ ret' = Zero32
    /\ mem' = NoMem
    /\ output' = NoOutput
    /\ denied' = FALSE
    /\ pc' = "returned"

\* wasm_get_buffer_size()
wasm_get_buffer_size == g_memory_buffer.size

\* wasm_get_memory_buffer()
wasm_get_memory_buffer == g_memory_buffer.buffer

\* The host has read the result of the call; its descriptors go out of scope.
HostReturn ==
    /\ pc = "returned"
    /\ pc' = "idle"
    /\ call' = NoCall
    /\ ret' = Zero32
    /\ mem' = NoMem
    /\ output' = NoOutput
    /\ denied' = FALSE
    /\ UNCHANGED g_memory_buffer

----------------------------------------------------------------------------
(* Input buffers *)

\* the k-th float (k >= 1) of a test buffer: base - 1/2, base, base + 1/2, ...
Sample(base, k) == Rat(2 * base + k - 2, 2)

\* a planar buffer of len frames and ch channels whose floats are all distinct
RampBuf(len, ch, rate, base) ==
    [data |-> [k \in 1..(len * ch) |-> Sample(base, k)],
     length |-> U(len), num_channels |-> ch, sample_rate |-> U(rate)]

\* a planar buffer whose floats all equal the integer v
ConstBuf(len, ch, rate, v) ==
    [data |-> [k \in 1..(len * ch) |-> RInt(v)],
     length |-> U(len), num_channels |-> ch, sample_rate |-> U(rate)]

Channels == {1, 2}
Rates == {1000, 2000}

----------------------------------------------------------------------------
(* The part every producing entry point shares *)

\* (a slip of the realloc branch: the result is stored into g_memory_buffer.buffer
\* before it is tested)
EnsureCapacity_StoreFirst(mb, n, p) ==
    IF Gt32(n, mb.capacity)
      THEN IF p = 0 THEN [mb EXCEPT !.buffer = 0]
           ELSE [mb EXCEPT !.buffer = p, !.capacity = n]
      ELSE mb

\* if (n > capacity) { new_buffer = realloc(buffer, n); if (!new_buffer) return 0;
\*                     buffer = new_buffer; capacity = n; }
\* p is what realloc returns; the result is the MemoryBuffer after the branch
EnsureCapacity(mb, n, p) ==
    IF Gt32(n, mb.capacity)
      THEN IF p = 0 THEN mb ELSE [mb EXCEPT !.buffer = p, !.capacity = n]
      ELSE mb

\* the "return 0" of that branch is taken
GrowDenied(mb, n, p) == Gt32(n, mb.capacity) /\ p = 0

\* how a call that got its capacity can end
Outcomes(fault, nullStore) ==
    IF fault THEN {"trap", "garbage"}
    ELSE IF nullStore THEN {"trap", "done"}
    ELSE {"done"}

\* the descriptor stores "output->data = (float*)g_memory_buffer.buffer; ..."
Stored(outd, buffer) == IF outd.written THEN [outd EXCEPT !.data = buffer] ELSE outd

\* what realloc can return when the call asks for n bytes (0 when the call
\* does not reach realloc)
ReallocOutcomes(mb, n) == IF Gt32(n, mb.capacity) THEN AllocOutcomes ELSE {0}

\* From the capacity check to the return: the call c needs `need` bytes, stores
\* outd into the caller's descriptor, writes `content` (wbytes bytes of it),
\* sets size = need and returns retv; `fault` says its copy loops leave the
\* objects they were given.
Finish(c, need, wbytes, retv, outd, content, fault) ==
    \E p \in ReallocOutcomes(g_memory_buffer, need) :
    LET mb == EnsureCapacity(g_memory_buffer, need, p)
        nullStore == mb.buffer = 0 /\ wbytes # Zero32
    IN  /\ pc = "idle"
        /\ call' = c
        /\ IF GrowDenied(g_memory_buffer, need, p)
             THEN /\ denied' = TRUE
                  /\ ret' = Zero32
                  /\ g_memory_buffer' = mb
                  /\ output' = NoOutput
                  /\ mem' = NoMem
                  /\ pc' = "returned"
             ELSE \E o \in Outcomes(fault, nullStore) :
                  /\ denied' = FALSE
                  /\ output' = Stored(outd, mb.buffer)
                  /\ IF o = "trap"
                       THEN /\ g_memory_buffer' = mb
                            /\ ret' = Zero32
                            /\ mem' = NoMem
                            /\ pc' = "trapped"
                       ELSE /\ g_memory_buffer' = [mb EXCEPT !.size = need]
                            /\ ret' = retv
                            /\ mem' = IF o = "garbage" THEN GarbageMem ELSE content
                            /\ pc' = "returned"

----------------------------------------------------------------------------
(* wasm_slice_audio *)

\* if (start_sample + slice_length > source->length)
\*     slice_length = source->length - start_sample;
SliceLength(source, start_sample, slice_length) ==
    IF Gt32(Add32(start_sample, slice_length), source.length)
      THEN Sub32(source.length, start_sample)
      ELSE slice_length

\* the memcpy of a channel reads source frames [start, start + n): outside the
\* source's data unless n = 0 or start + n <= length (as numbers, not modulo 2^32)
SliceFault(source, start_sample, n) ==
    /\ source.num_channels > 0
    /\ n # Zero32
    /\ \/ Gt32(start_sample, source.length)
       \/ Gt32(n, Sub32(source.length, start_sample))

\* slice_data[ch * n + j] = source->data[ch * length + start + j]
SliceData(source, start_sample, n) ==
    IF SliceFault(source, start_sample, n) THEN <<>>
    ELSE LET len == N(n)
             L == N(source.length)
             s == N(start_sample)
         IN  [k \in 1..(source.num_channels * len) |->
                source.data[((k - 1) \div len) * L + s + ((k - 1) % len) + 1]]

wasm_slice_audio(source, start_sample, slice_length) ==
    LET n == SliceLength(source, start_sample, slice_length)
        buffer_size == Mul32(Mul32(n, source.num_channels), SizeofFloat)
    IN  Finish([NoCall EXCEPT !.op = "slice_audio", !.bufs = <<source>>,
                              !.a = start_sample, !.b = slice_length],
               buffer_size, buffer_size, n, NoOutput,
               FloatMem(SliceData(source, start_sample, n)),
               SliceFault(source, start_sample, n))

\* A return before the capacity check: nothing but the return value changes.
EarlyReturn(c, retv) ==
    /\ pc = "idle"
    /\ call' = c
    /\ ret' = retv
    /\ denied' = FALSE
    /\ output' = NoOutput
    /\ mem' = NoMem
    /\ pc' = "returned"
    /\ UNCHANGED g_memory_buffer

\* an arena float the call did not write
Unwritten == <<0, 0>>

----------------------------------------------------------------------------
(* wasm_merge_audio_buffers *)

\* "return 0; // format mismatch" in the loop that adds up the lengths
MergeMismatch(buffers) ==
    \E i \in 1..Len(buffers) :
        \/ buffers[i].num_channels # buffers[1].num_channels
        \/ buffers[i].sample_rate # buffers[1].sample_rate

\* total_length += buffers[i].length, for the buffers from index i on
RECURSIVE MergeTotal(_, _, _)
MergeTotal(buffers, i, total_length) ==
    IF i > Len(buffers) THEN total_length
    ELSE MergeTotal(buffers, i + 1, Add32(total_length, buffers[i].length))

\* (a slip of the copy loop: the offset is never advanced)
MergeAdvance_Stuck(offset, length) == offset

\* offset += buffers[i].length
MergeAdvance(offset, length) == offset + length

\* memcpy(output->data + ch * total_length + offset,
\*        buffers[i].data + ch * buffers[i].length, buffers[i].length floats)
\* for every channel of one buffer
MergeCopy(out, buf, num_channels, total_length, offset) ==
    LET len == N(buf.length)
    IN  [k \in DOMAIN out |->
           LET ch == (k - 1) \div total_length
               j == ((k - 1) % total_length) - offset
           IN  IF total_length > 0 /\ ch < num_channels /\ 0 <= j /\ j < len
                 THEN buf.data[ch * len + j + 1]
                 ELSE out[k]]

\* the copy loop over the buffers from index i on
RECURSIVE MergeData(_, _, _, _, _, _)
MergeData(buffers, i, out, num_channels, total_length, offset) ==
    IF i > Len(buffers) THEN out
    ELSE MergeData(buffers, i + 1,
                   MergeCopy(out, buffers[i], num_channels, total_length, offset),
                   num_channels, total_length,
                   MergeAdvance(offset, N(buffers[i].length)))

wasm_merge_audio_buffers(buffers) ==
    LET c == [NoCall EXCEPT !.op = "merge_audio_buffers", !.bufs = buffers]
    IN  IF Len(buffers) = 0 THEN EarlyReturn(c, Zero32)
        ELSE IF MergeMismatch(buffers) THEN EarlyReturn(c, Zero32)
        ELSE LET num_channels == buffers[1].num_channels
                 total_length == MergeTotal(buffers, 1, Zero32)
                 buffer_size == Mul32(Mul32(total_length, num_channels), SizeofFloat)
                 blank == [k \in 1..(num_channels * N(total_length)) |-> Unwritten]
             IN  Finish(c, buffer_size, buffer_size, total_length,
                        [written |-> TRUE, data |-> 0, length |-> total_length,
                         num_channels |-> num_channels,
                         sample_rate |-> buffers[1].sample_rate],
                        FloatMem(MergeData(buffers, 1, blank, num_channels,
                                           N(total_length), 0)),
                        FALSE)

----------------------------------------------------------------------------
(* wasm_cross_fade *)

\* (a slip of the mix: the two weights are exchanged)
CrossFadeMix_Swapped(src1, src2, i, fade_length) ==
    LET fade_out == Rat(i, fade_length)
        fade_in == RSub(RInt(1), fade_out)
    IN  RAdd(RMul(src1, fade_in), RMul(src2, fade_out))

\* fade_out = (float)i / fade_length; fade_in = 1.0f - fade_out;
\* dst[0] = src1[0] * fade_out + src2[0] * fade_in
CrossFadeMix(src1, src2, i, fade_length) ==
    LET fade_out == Rat(i, fade_length)
        fade_in == RSub(RInt(1), fade_out)
    IN  RAdd(RMul(src1, fade_out), RMul(src2, fade_in))

\* the copies leave buffer1 or buffer2: a fade longer than either buffer makes
\* "length - fade_length" wrap, and channel ch of buffer2 is read for every
\* ch < buffer1->num_channels, whatever buffer2->num_channels is
CrossFadeFault(buffer1, buffer2, fade_length) ==
    /\ buffer1.num_channels > 0
    /\ \/ Gt32(fade_length, buffer1.length)
       \/ Gt32(fade_length, buffer2.length)
       \/ buffer2.num_channels < buffer1.num_channels /\ buffer2.length # Zero32

\* the three regions of every output channel
CrossFadeData(buffer1, buffer2, fade_length) ==
    IF CrossFadeFault(buffer1, buffer2, fade_length) THEN <<>>
    ELSE LET l1 == N(buffer1.length)
             l2 == N(buffer2.length)
             f == N(fade_length)
             total_length == l1 + l2 - f
         IN  [k \in 1..(buffer1.num_channels * total_length) |->
                LET ch == (k - 1) \div total_length
                    j == (k - 1) % total_length
                IN  IF j < l1 - f THEN buffer1.data[ch * l1 + j + 1]
                    ELSE IF j < l1
                      THEN CrossFadeMix(buffer1.data[ch * l1 + j + 1],
                                        buffer2.data[ch * l2 + (j - (l1 - f)) + 1],
                                        j - (l1 - f), f)
                    ELSE buffer2.data[ch * l2 + f + (j - l1) + 1]]

wasm_cross_fade(buffer1, buffer2, fade_length) ==
    LET total_length == Sub32(Add32(buffer1.length, buffer2.length), fade_length)
        num_channels == buffer1.num_channels
        buffer_size == Mul32(Mul32(total_length, num_channels), SizeofFloat)
    IN  Finish([NoCall EXCEPT !.op = "cross_fade", !.bufs = <<buffer1, buffer2>>,
                              !.a = fade_length],
               buffer_size, buffer_size, total_length,
               [written |-> TRUE, data |-> 0, length |-> total_length,
                num_channels |-> num_channels, sample_rate |-> buffer1.sample_rate],
               FloatMem(CrossFadeData(buffer1, buffer2, fade_length)),
               CrossFadeFault(buffer1, buffer2, fade_length))

----------------------------------------------------------------------------
(* wasm_resample_audio *)

\* (uint32_t)(source->length * ratio), ratio = (double)target / source rate
ResampleLength(source, target_sample_rate) ==
    (N(source.length) * N(target_sample_rate)) \div N(source.sample_rate)

\* dst[i] of one channel whose floats are src[1..length]
ResampleAt(src, length, i, source_rate, target_rate) ==
    LET src_pos == Rat(i * source_rate, target_rate)
        src_idx == RTrunc(src_pos)
        frac == RSub(src_pos, RInt(src_idx))
    IN  IF Ge32(U(src_idx), Sub32(U(length), U(1)))
          THEN src[length]
          ELSE RAdd(RMul(src[src_idx + 1], RSub(RInt(1), frac)),
                    RMul(src[src_idx + 2], frac))

ResampleData(source, target_sample_rate) ==
    LET L == N(source.length)
        target_length == ResampleLength(source, target_sample_rate)
    IN  [k \in 1..(source.num_channels * target_length) |->
           LET ch == (k - 1) \div target_length
               i == (k - 1) % target_length
           IN  ResampleAt([j \in 1..L |-> source.data[ch * L + j]], L, i,
                          N(source.sample_rate), N(target_sample_rate))]

wasm_resample_audio(source, target_sample_rate) ==
    LET c == [NoCall EXCEPT !.op = "resample_audio", !.bufs = <<source>>,
                            !.a = target_sample_rate]
    IN  IF source.sample_rate = target_sample_rate
          THEN EarlyReturn(c, source.length)
          ELSE LET target_length == U(ResampleLength(source, target_sample_rate))
                   buffer_size == Mul32(Mul32(target_length, source.num_channels),
                                        SizeofFloat)
               IN  Finish(c, buffer_size, buffer_size, target_length,
                          [written |-> TRUE, data |-> 0, length |-> target_length,
                           num_channels |-> source.num_channels,
                           sample_rate |-> target_sample_rate],
                          FloatMem(ResampleData(source, target_sample_rate)),
                          FALSE)

----------------------------------------------------------------------------
(* The WAV codec *)

\* the two little-endian bytes of an int16_t
Bytes16(v) ==
    LET u == (v + 65536) % 65536
    IN  <<u % 256, u \div 256>>

\* int_sample & 0xFF, (int_sample >> 8) & 0xFF, (int_sample >> 16) & 0xFF
Bytes24(v) ==
    LET u == (v + 16777216) % 16777216
    IN  <<u % 256, (u \div 256) % 256, u \div 65536>>

\* sample = fmaxf(-1.0f, fminf(1.0f, sample));
\* (int)(sample < 0 ? sample * neg : sample * pos)
Quantize(sample, neg, pos) ==
    LET clamped == RMax(RInt(-1), RMin(RInt(1), sample))
    IN  RTrunc(RMul(clamped, RInt(IF clamped[1] < 0 THEN neg ELSE pos)))

\* the payload bytes the encoder writes for length * num_channels floats taken
\* in the order they lie in audio_data; a bit depth other than 16 or 24 leaves
\* the data_size bytes after the header unwritten
EncodePayload(audio_data, count, bits_per_sample, data_size) ==
    IF bits_per_sample = 16
      THEN [k \in 1..(2 * count) |->
              Bytes16(Quantize(audio_data[((k - 1) \div 2) + 1], 32768, 32767))
                     [((k - 1) % 2) + 1]]
    ELSE IF bits_per_sample = 24
      THEN [k \in 1..(3 * count) |->
              Bytes24(Quantize(audio_data[((k - 1) \div 3) + 1], 8388608, 8388607))
                     [((k - 1) % 3) + 1]]
    ELSE [k \in 1..N(data_size) |-> -1]

wasm_audio_buffer_to_wav(audio_data, length, num_channels, sample_rate, bits_per_sample) ==
    LET bytes_per_sample == bits_per_sample \div 8
        block_align == (num_channels * bytes_per_sample) % Base
        data_size == Mul32(length, block_align)
        total_size == Add32(U(HeaderSize), data_size)
        header == [riff |-> "RIFF", file_size |-> Sub32(total_size, U(8)),
                   wave |-> "WAVE", fmt |-> "fmt ", fmt_size |-> U(16),
                   audio_format |-> 1, num_channels |-> num_channels,
                   sample_rate |-> sample_rate,
                   byte_rate |-> Mul32(sample_rate, block_align),
                   block_align |-> block_align,
                   bits_per_sample |-> bits_per_sample, data |-> "data",
                   data_size |-> data_size,
                   payload |-> EncodePayload(audio_data, N(length) * num_channels,
                                             bits_per_sample, data_size)]
    IN  Finish([NoCall EXCEPT !.op = "audio_buffer_to_wav",
                              !.bufs = <<[data |-> audio_data, length |-> length,
                                          num_channels |-> num_channels,
                                          sample_rate |-> sample_rate]>>,
                              !.bits = bits_per_sample],
               total_size, total_size, total_size, NoOutput, WavMem(header),
               FALSE)

\* the instance stops inside the call: a division by zero
Trap(c) ==
    /\ pc = "idle"
    /\ call' = c
    /\ pc' = "trapped"
    /\ UNCHANGED <<g_memory_buffer, mem, output, ret, denied>>

\* int_data[i] read from the payload as a little-endian int16_t
Int16At(payload, i) ==
    LET u == payload[2 * i + 1] + 256 * payload[2 * i + 2]
    IN  IF u >= 32768 THEN u - 65536 ELSE u

\* byte_data[i*3] | byte_data[i*3+1] << 8 | (int8_t)byte_data[i*3+2] << 16
Int24At(payload, i) ==
    LET b2 == payload[3 * i + 3]
    IN  payload[3 * i + 1] + 256 * payload[3 * i + 2]
        + 65536 * (IF b2 >= 128 THEN b2 - 256 ELSE b2)

\* (float)v / (v < 0 ? neg : pos)
Dequantize(v, neg, pos) == Rat(v, IF v < 0 THEN neg ELSE pos)

\* the decoder reads bytes of the payload that the caller's buffer does not hold
DecodeFault(wav, count) ==
    \/ wav.bits_per_sample = 16 /\ 2 * count > Len(wav.payload)
    \/ wav.bits_per_sample = 24 /\ 3 * count > Len(wav.payload)

\* output->data[i] for i < num_samples * num_channels; a bit depth other than
\* 16 or 24 writes none of them
DecodeData(wav, count) ==
    IF DecodeFault(wav, count) THEN <<>>
    ELSE IF wav.bits_per_sample = 16
      THEN [k \in 1..count |-> Dequantize(Int16At(wav.payload, k - 1), 32768, 32767)]
    ELSE IF wav.bits_per_sample = 24
      THEN [k \in 1..count |-> Dequantize(Int24At(wav.payload, k - 1), 8388608, 8388607)]
    ELSE [k \in 1..count |-> Unwritten]

wasm_wav_to_audio_buffer(wav, wav_size) ==
    LET c == [NoCall EXCEPT !.op = "wav_to_audio_buffer", !.wav = wav, !.a = wav_size]
        bytes_per_sample == wav.bits_per_sample \div 8
        divisor == wav.num_channels * bytes_per_sample
    IN  IF Lt32(wav_size, U(HeaderSize)) THEN EarlyReturn(c, Zero32)
        ELSE IF wav.riff # "RIFF" \/ wav.wave # "WAVE" \/ wav.fmt # "fmt "
          THEN EarlyReturn(c, Zero32)
        ELSE IF divisor = 0 THEN Trap(c)
        ELSE LET num_samples == N(wav.data_size) \div divisor
                 buffer_size == Mul32(Mul32(U(num_samples), wav.num_channels),
                                      SizeofFloat)
             IN  Finish(c, buffer_size, buffer_size, U(num_samples),
                        [written |-> TRUE, data |-> 0, length |-> U(num_samples),
                         num_channels |-> wav.num_channels,
                         sample_rate |-> wav.sample_rate],
                        FloatMem(DecodeData(wav, num_samples * wav.num_channels)),
                        DecodeFault(wav, num_samples * wav.num_channels))

----------------------------------------------------------------------------
(* The calls the host makes *)

InitSizes == {U(8), U(64)}

\* start_sample and slice_length values: the small ones, and two that make
\* the 32-bit arithmetic wrap (2^32 - 1 and 2^30 + 2)
BigValues == {Max32, <<Base \div 4, 2>>}
SliceStarts == {U(i) : i \in 0..(MaxLen + 1)} \cup BigValues
SliceLengths == {U(0), U(1), U(MaxLen + 1), Max32}

SliceSources == {RampBuf(len, ch, 1000, 0) : len \in 0..MaxLen, ch \in Channels}

\* how one buffer of a merge call departs from the format of the first
Deviations(n) == {<<0, "none">>} \cup ((2..n) \X {"channels", "rate"})

MergeBuffers(n, ch, lens, dev) ==
    [i \in 1..n |->
        RampBuf(lens[i],
                IF dev = <<i, "channels">> THEN 3 - ch ELSE ch,
                IF dev = <<i, "rate">> THEN 2000 ELSE 1000,
                10 * i)]

\* two mono buffers [1,2,3] and [4,5,6,7,8]
MergeScenario ==
    <<[data |-> <<RInt(1), RInt(2), RInt(3)>>, length |-> U(3),
       num_channels |-> 1, sample_rate |-> U(1000)],
      [data |-> <<RInt(4), RInt(5), RInt(6), RInt(7), RInt(8)>>, length |-> U(5),
       num_channels |-> 1, sample_rate |-> U(1000)]>>

\* no buffer; the scenario; up to MaxBufs buffers of one format and of every
\* length; and one-frame buffers of which one departs from the format
MergeInputs ==
    {<<>>, MergeScenario}
    \cup UNION {{MergeBuffers(n, ch, lens, <<0, "none">>) :
                   ch \in Channels, lens \in [1..n -> 0..MaxLen]} : n \in 1..MaxBufs}
    \cup UNION {{MergeBuffers(n, ch, [i \in 1..n |-> 1], dev) :
                   ch \in Channels, dev \in Deviations(n)} : n \in 1..MaxBufs}

\* cross_fade inputs: (channels of A, channels of B, sample rate of B)
FadeFormats == {<<1, 1, 1000>>, <<2, 2, 1000>>}
FadeMismatches == {<<1, 2, 1000>>, <<2, 1, 1000>>, <<1, 1, 2000>>}

\* A = [1,1,1,1], B = [0,0,0,0], fade_length = 2
FadeScenario == <<ConstBuf(4, 1, 1000, 1), ConstBuf(4, 1, 1000, 0), U(2)>>

FadeInputs ==
    {FadeScenario} \cup
    {<<RampBuf(l1, fm[1], 1000, 0), RampBuf(l2, fm[2], fm[3], 10), U(f)>> :
        l1 \in 0..MaxLen, l2 \in 0..MaxLen, f \in 0..(MaxLen + 1), fm \in FadeFormats}
    \cup
    {<<RampBuf(l1, fm[1], 1000, 0), RampBuf(l2, fm[2], fm[3], 10), U(f)>> :
        l1 \in 0..MaxLen, l2 \in 0..MaxLen, f \in 0..1, fm \in FadeMismatches}

ResampleSources ==
    {RampBuf(len, ch, rate, 0) : len \in 0..MaxLen, ch \in Channels, rate \in Rates}
TargetRates == {U(500), U(1000), U(2000), U(4000)}

BitDepths == {8, 16, 24, 32}

EncodeSources == {RampBuf(len, ch, 1000, 0) : len \in 0..MaxLen, ch \in Channels}

\* the integer sample at payload position pos (0-based): 1, -2, 3, -4, ... times
\* a step that fills the sample's bytes
PayloadInt(pos, bits) ==
    (IF pos % 2 = 0 THEN 1 ELSE -1) * (pos + 1) * (IF bits = 24 THEN 100000 ELSE 1000)

\* a canonical WAV file of `frames` frames
MkWav(bits, ch, frames) ==
    LET bps == bits \div 8
        count == frames * ch
    IN  [riff |-> "RIFF", file_size |-> U(36 + count * bps), wave |-> "WAVE",
         fmt |-> "fmt ", fmt_size |-> U(16), audio_format |-> 1,
         num_channels |-> ch, sample_rate |-> U(1000),
         byte_rate |-> U(1000 * ch * bps), block_align |-> ch * bps,
         bits_per_sample |-> bits, data |-> "data", data_size |-> U(count * bps),
         payload |-> [k \in 1..(count * bps) |->
                        IF bits = 16
                          THEN Bytes16(PayloadInt((k - 1) \div 2, 16))[((k - 1) % 2) + 1]
                        ELSE IF bits = 24
                          THEN Bytes24(PayloadInt((k - 1) \div 3, 24))[((k - 1) % 3) + 1]
                        ELSE k]]

\* the size of the whole file
WavSize(wav) == U(HeaderSize + Len(wav.payload))

\* well-formed files of every bit depth; files whose header makes the divisor
\* zero; files with a wrong magic; a file cut short; a file whose data_size
\* promises more payload than the buffer holds
DecodeInputs ==
    {<<MkWav(bits, ch, frames), WavSize(MkWav(bits, ch, frames))>> :
        bits \in {8, 16, 24}, ch \in Channels, frames \in 0..MaxLen}
    \cup {<<MkWav(4, 1, 1), U(HeaderSize)>>, <<MkWav(16, 0, 1), U(HeaderSize)>>}
    \cup {<<[MkWav(16, 1, 1) EXCEPT !.riff = "RIFX"], U(46)>>,
          <<[MkWav(16, 1, 1) EXCEPT !.wave = "WAVX"], U(46)>>,
          <<[MkWav(16, 1, 1) EXCEPT !.fmt = "fmtx"], U(46)>>,
          <<MkWav(16, 1, 1), U(43)>>,
          <<[MkWav(16, 1, 2) EXCEPT !.payload = <<>>], U(HeaderSize)>>}

Next ==
    \/ pc = "idle" /\ \E size \in InitSizes, p \in AllocOutcomes :
          wasm_init_memory(size, p)
    \/ wasm_cleanup
    \/ HostReturn
    \/ pc = "idle" /\ \E source \in SliceSources, s \in SliceStarts, n \in SliceLengths :
          wasm_slice_audio(source, s, n)
    \/ pc = "idle" /\ \E buffers \in MergeInputs : wasm_merge_audio_buffers(buffers)
    \/ pc = "idle" /\ \E in \in FadeInputs : wasm_cross_fade(in[1], in[2], in[3])
    \/ pc = "idle" /\ \E source \in ResampleSources, target \in TargetRates :
          wasm_resample_audio(source, target)
    \/ pc = "idle" /\ \E src \in EncodeSources, bits \in BitDepths :
          wasm_audio_buffer_to_wav(src.data, src.length, src.num_channels,
                                   src.sample_rate, bits)
    \/ pc = "idle" /\ \E in \in DecodeInputs : wasm_wav_to_audio_buffer(in[1], in[2])

Spec == Init /\ [][Next]_vars

----------------------------------------------------------------------------
(* Vocabulary of the properties *)

ProducingOps == {"audio_buffer_to_wav", "wav_to_audio_buffer", "slice_audio",
                 "merge_audio_buffers", "resample_audio", "cross_fade"}

\* the last call was op, and it returned to the host
Returned(op) == pc = "returned" /\ call.op = op

SameFormat(x, y) ==
    x.num_channels = y.num_channels /\ x.sample_rate = y.sample_rate

\* the sum of the lengths of the first n buffers, as a number
RECURSIVE SumLengths(_, _)
SumLengths(bufs, n) ==
    IF n = 0 THEN 0 ELSE SumLengths(bufs, n - 1) + N(bufs[n].length)

\* the float of channel ch, frame i (both 0-based) of a planar buffer of L frames
Planar(data, L, ch, i) == data[ch * L + i + 1]

\* the channel count of the result of the last call
ResultChannels ==
    IF call.op = "wav_to_audio_buffer" THEN call.wav.num_channels
    ELSE call.bufs[1].num_channels

\* the byte count of the result of the last call, as the interface states it
ResultBytes ==
    IF call.op = "audio_buffer_to_wav"
      THEN U(HeaderSize + N(call.bufs[1].length) * call.bufs[1].num_channels
                          * (call.bits \div 8))
      ELSE Mul32(Mul32(ret, ResultChannels), SizeofFloat)

----------------------------------------------------------------------------
(* C1: in every reachable state the arena has used <= capacity, and its
   storage pointer is null exactly when its capacity is 0. *)
C1_ArenaInvariant ==
    /\ Le32(g_memory_buffer.size, g_memory_buffer.capacity)
    /\ (g_memory_buffer.buffer = 0) <=> (g_memory_buffer.capacity = Zero32)

(* C2: a producing call whose grow request is denied returns 0 and leaves
   used, capacity and the storage pointer as they were; a producing call
   changes used only when it runs to its end (no denial, no trap). *)
C2_DeniedGrowLeavesArena ==
    [][(call'.op \in ProducingOps) =>
         /\ denied' => (ret' = Zero32 /\ g_memory_buffer' = g_memory_buffer)
         /\ (g_memory_buffer'.size # g_memory_buffer.size)
               => (~denied' /\ pc' = "returned")]_vars

\* a cross_fade is denied its grow while the arena holds an earlier result
C2_Witness ==
    /\ Returned("cross_fade")
    /\ denied
    /\ g_memory_buffer.buffer # 0
    /\ g_memory_buffer.size # Zero32

(* C3: after a successful producing call (one that returns a non-zero count),
   get_buffer_size() is the byte count of that call's result and the result
   lies in the arena from offset 0 -- for every producing operation,
   resample with target rate = source rate included. *)
C3_SizeIsResultBytes ==
    (pc = "returned" /\ call.op \in ProducingOps /\ ~denied /\ ret # Zero32)
        => /\ wasm_get_buffer_size = ResultBytes
           /\ mem.kind # "none"

\* the same without the equal-rate resample, which holds
C3_ExceptEqualRateResample ==
    (/\ pc = "returned" /\ call.op \in ProducingOps /\ ~denied /\ ret # Zero32
     /\ ~(call.op = "resample_audio" /\ call.a = call.bufs[1].sample_rate))
        => /\ wasm_get_buffer_size = ResultBytes
           /\ mem.kind # "none"

(* C4: for a bits_per_sample other than 16 or 24, audio_buffer_to_wav returns
   0, and wav_to_audio_buffer given a 44-byte-or-longer file with valid magic
   and that bit depth returns 0; neither changes used. *)
C4_UnsupportedDepthRejected ==
    [][(\/ call'.op = "audio_buffer_to_wav" /\ call'.bits \notin {16, 24}
        \/ /\ call'.op = "wav_to_audio_buffer"
           /\ call'.wav.bits_per_sample \notin {16, 24}
           /\ Ge32(call'.a, U(HeaderSize))
           /\ call'.wav.riff = "RIFF" /\ call'.wav.wave = "WAVE"
           /\ call'.wav.fmt = "fmt ")
         => /\ pc' = "returned"
            /\ ret' = Zero32
            /\ g_memory_buffer'.size = g_memory_buffer.size]_vars

(* C5: slice_audio returns min(length, source.length - start) frames when
   start < source.length; when start >= source.length it returns 0 with a
   zero-length result, without a fault and without an access outside the
   source or the arena -- for every 32-bit start and length.  (Stated for
   the calls whose grow request is not denied.) *)
C5_SliceClamps ==
    (pc # "idle" /\ call.op = "slice_audio" /\ ~denied)
        => LET L == call.bufs[1].length
               start == call.a
               length == call.b
               rest == Sub32(L, start)
           IN  /\ pc = "returned"
               /\ mem.kind # "garbage"
               /\ IF Lt32(start, L)
                    THEN ret = (IF Lt32(length, rest) THEN length ELSE rest)
                    ELSE ret = Zero32 /\ wasm_get_buffer_size = Zero32

(* C6: merge_audio_buffers and cross_fade return 0, with used unchanged,
   whenever their input buffers differ in channels or in sample_rate.
   (Stated for a cross_fade whose fade_length is within both lengths.) *)
C6_FormatMismatchRejected ==
    [][(/\ call'.op \in {"merge_audio_buffers", "cross_fade"}
        /\ \E i \in 1..Len(call'.bufs) : ~SameFormat(call'.bufs[i], call'.bufs[1])
        /\ call'.op = "cross_fade" =>
              \A i \in 1..2 : Le32(call'.a, call'.bufs[i].length))
         => /\ pc' = "returned"
            /\ ret' = Zero32
            /\ g_memory_buffer'.size = g_memory_buffer.size]_vars

(* C7: for N >= 1 buffers of one format, merge_audio_buffers returns
   L = the sum of the lengths, stores length L and the shared channels and
   sample rate into the output descriptor, and writes channel c of input k
   to output[c*L + offset_k .. c*L + offset_k + length_k), offset_k being
   the sum of the lengths before k.  (Stated for the calls that return and
   whose grow request is not denied.) *)
C7_MergeConcatenates ==
    (/\ Returned("merge_audio_buffers") /\ ~denied
     /\ Len(call.bufs) >= 1
     /\ \A i \in 1..Len(call.bufs) : SameFormat(call.bufs[i], call.bufs[1]))
        => LET bufs == call.bufs
               C == bufs[1].num_channels
               L == SumLengths(bufs, Len(bufs))
           IN  /\ ret = U(L)
               /\ output = [written |-> TRUE, data |-> g_memory_buffer.buffer,
                            length |-> U(L), num_channels |-> C,
                            sample_rate |-> bufs[1].sample_rate]
               /\ mem.kind = "float"
               /\ Len(mem.data) = C * L
               /\ \A k \in 1..Len(bufs) : \A c \in 0..(C - 1) :
                    \A j \in 0..(N(bufs[k].length) - 1) :
                       Planar(mem.data, L, c, SumLengths(bufs, k - 1) + j)
                         = Planar(bufs[k].data, N(bufs[k].length), c, j)

\* a merge of two stereo buffers of 1 and 2 frames has returned
C7_Witness ==
    /\ Returned("merge_audio_buffers") /\ ~denied
    /\ Len(call.bufs) = 2
    /\ SameFormat(call.bufs[2], call.bufs[1])
    /\ call.bufs[1].num_channels = 2
    /\ call.bufs[1].length = U(1) /\ call.bufs[2].length = U(2)
    /\ ret = U(3)

(* C8: with target_sample_rate = source.sample_rate, resample_audio returns
   source.length and populates the output descriptor with the source's
   length, channels and sample rate, the output holding the source's
   samples.  (Stated for a source that is not empty.) *)
C8_ResampleIdentity ==
    (/\ Returned("resample_audio") /\ call.a = call.bufs[1].sample_rate
     /\ call.bufs[1].length # Zero32)
        => LET source == call.bufs[1]
           IN  /\ ret = source.length
               /\ output.written
               /\ output.length = source.length
               /\ output.num_channels = source.num_channels
               /\ output.sample_rate = source.sample_rate
               /\ mem.kind = "float" /\ mem.data = source.data

(* C9: wav_to_audio_buffer stores the dequantized payload sample of frame i,
   channel c (payload position i*C + c) at float index c*L + i of the decoded
   buffer.  (Stated for 16- and 24-bit files that decode without a denied
   grow.) *)
C9_DecodeTransposes ==
    (/\ Returned("wav_to_audio_buffer") /\ ~denied /\ mem.kind = "float"
     /\ call.wav.bits_per_sample \in {16, 24})
        => LET wav == call.wav
               C == wav.num_channels
               L == N(ret)
           IN  \A c \in 0..(C - 1) : \A i \in 0..(L - 1) :
                  Planar(mem.data, L, c, i)
                    = IF wav.bits_per_sample = 16
                        THEN Dequantize(Int16At(wav.payload, i * C + c), 32768, 32767)
                        ELSE Dequantize(Int24At(wav.payload, i * C + c),
                                        8388608, 8388607)

\* what C10 says of every cross_fade of two buffers with the same channels
\* and a fade_length <= both lengths, apart from its example
CrossFadeLaw ==
    LET A == call.bufs[1]
        B == call.bufs[2]
        la == N(A.length)
        lb == N(B.length)
        f == N(call.a)
        total == la + lb - f
    IN  /\ ret = U(total)
        /\ mem.kind = "float"
        /\ Len(mem.data) = A.num_channels * total
        /\ \A c \in 0..(A.num_channels - 1) :
              /\ \A j \in 0..(la - f - 1) :
                    Planar(mem.data, total, c, j) = Planar(A.data, la, c, j)
              /\ \A j \in la..(total - 1) :
                    Planar(mem.data, total, c, j) = Planar(B.data, lb, c, f + (j - la))
              /\ \A i \in 0..(f - 1) :
                    LET w == Rat(i, f)
                        v == RSub(RInt(1), w)
                    IN  /\ ~RLt(w, RInt(0)) /\ ~RLt(v, RInt(0))
                        /\ RAdd(w, v) = RInt(1)
                        /\ Planar(mem.data, total, c, la - f + i)
                             = RAdd(RMul(Planar(A.data, la, c, la - f + i), w),
                                    RMul(Planar(B.data, lb, c, i), v))

\* the calls C10 is about, among those that returned with their grow granted
CrossFadeCase ==
    /\ Returned("cross_fade") /\ ~denied
    /\ call.bufs[1].num_channels = call.bufs[2].num_channels
    /\ Le32(call.a, call.bufs[1].length)
    /\ Le32(call.a, call.bufs[2].length)

\* the call of the example: A = [1,1,1,1], B = [0,0,0,0], fade_length = 2
CrossFadeExample == call.bufs = <<FadeScenario[1], FadeScenario[2]>> /\ call.a = U(2)

(* C10 as stated: the cross-fade law, and the example gives [1,1,0,1,0,0]. *)
C10_CrossFadeAsStated ==
    CrossFadeCase =>
        /\ CrossFadeLaw
        /\ CrossFadeExample =>
              mem.data = <<RInt(1), RInt(1), RInt(0), RInt(1), RInt(0), RInt(0)>>

(* C10 amended: for buffers A and B with the same channels and
   0 <= fade_length <= min(A.length, B.length), cross_fade returns
   A.length + B.length - fade_length; per channel, frames
   [0, A.length - fade_length) are A's, frames [A.length, end) are B's from
   fade_length on, and frame A.length - fade_length + i is
   A_tail[i]*(i/fade_length) + B_head[i]*(1 - i/fade_length), the weights
   non-negative and summing to 1; the example gives [1,1,0,1/2,0,0]. *)
C10_CrossFadeAmended ==
    CrossFadeCase =>
        /\ CrossFadeLaw
        /\ CrossFadeExample =>
              mem.data = <<RInt(1), RInt(1), RInt(0), Rat(1, 2), RInt(0), RInt(0)>>

\* the example call has returned
C10_Witness == CrossFadeCase /\ CrossFadeExample /\ ret = U(6)

=============================================================================
